---- MODULE Spec2Model ----
(***************************************************************************)
(* Model of bin/cli.js of create-react-csr-app: the commander action that  *)
(* asks the questions, derives the package lists, and materializes the     *)
(* project (directory, scaffolder, installs, config files, manifest).      *)
(*                                                                         *)
(* A project name is a sequence of one-character strings, so that the     *)
(* validate regular expression and the whitespace filter act on            *)
(* characters.  Every other string of the program is a TLA+ string.        *)
(***************************************************************************)
EXTENDS Integers, Sequences, FiniteSets, TLC

VARIABLES
    projectDirectory,   \* the positional CLI argument: [given, value]
    typed,              \* the line last entered at the name question
    attempts,           \* how many times the name question re-prompted
    run,                \* the state of the run (see InitRun)
    twin                \* a second run: same inputs, other router/reactQuery

vars == <<projectDirectory, typed, attempts, run, twin>>

----------------------------------------------------------------------------
(* Bounds of the model *)

\* longest line typed at the name question
MaxLen == 3
\* re-prompts followed before the model stops counting
MaxAttempts == 1

----------------------------------------------------------------------------
(* Characters and project names *)

Letters == {"a"}
Digits == {"7"}
Whitespace == {" ", "\t"}
Hyphen == "-"
Underscore == "_"
OtherChars == {"!"}

\* the class [A-Za-z\d\s\-\_] of the validate pattern
NameChars == Letters \cup Digits \cup Whitespace \cup {Hyphen, Underscore}

Alphabet == NameChars \cup OtherChars

\* every line of at most n characters
Lines(n) == UNION {[1..k -> Alphabet] : k \in 0..n}

\* validate: /^[A-Za-z\d\s\-\_]+$/.test(input)
validate(input) ==
    /\ Len(input) > 0
    /\ \A i \in 1..Len(input) : input[i] \in NameChars

\* the rest of s after its leading whitespace
RECURSIVE SkipWhitespace(_)
SkipWhitespace(s) ==
    IF s # <<>> /\ Head(s) \in Whitespace THEN SkipWhitespace(Tail(s)) ELSE s

\* input.replace(/\s/g, '-'): one hyphen per whitespace character
RECURSIVE filterEachChar(_)
filterEachChar(input) ==
    IF input = <<>> THEN <<>>
    ELSE IF Head(input) \in Whitespace
         THEN <<Hyphen>> \o filterEachChar(Tail(input))
         ELSE <<Head(input)>> \o filterEachChar(Tail(input))

\* filter: input.replace(/\s+/g, '-')
RECURSIVE filter(_)
filter(input) ==
    IF input = <<>> THEN <<>>
    ELSE IF Head(input) \in Whitespace
         THEN <<Hyphen>> \o filter(SkipWhitespace(Tail(input)))
         ELSE <<Head(input)>> \o filter(Tail(input))

----------------------------------------------------------------------------
(* Literals of the program *)

tailwindVersion == "3.4.17"
\* `tailwindcss@${tailwindVersion}`
tailwindPackage == "tailwindcss@3.4.17"

muiGroup == <<"@mui/material", "@emotion/react", "@emotion/styled", "@mui/icons-material">>
tailwindGroup == <<tailwindPackage, "postcss", "autoprefixer">>
eslintPrettierGroup ==
    <<"eslint", "prettier", "eslint-config-prettier", "eslint-plugin-prettier",
      "eslint-plugin-react", "eslint-plugin-react-hooks">>
biomeGroup == <<"@biomejs/biome">>

stylingChoices == {"mui", "tailwind", "none"}
lintingChoices == {"eslintPrettier", "biome", "none"}
routerChoices == {"none", "reactRouter", "tanStackRouter"}
reactQueryChoices == {"no", "yes"}

\* contents of the files the program writes
prettierrcContent ==
    "{semi:true,trailingComma:es5,singleQuote:true,printWidth:100,tabWidth:2}"
tailwindConfigContent ==
    "export default {content:[./index.html,./src/**/*.{js,ts,jsx,tsx}],theme:{extend:{}},plugins:[]}"
indexCssContent == "@tailwind base;\n@tailwind components;\n@tailwind utilities;"

\* contents that come from the external tools
Absent == "ABSENT"
FromScaffolder == "written by create-vite"
FromTailwindInit == "written by tailwindcss init"
FromBiomeInit == "written by biome init"

Paths ==
    {".prettierrc", "tailwind.config.js", "postcss.config.js", "src/index.css",
     "eslint.config.js", "biome.json"}

----------------------------------------------------------------------------
(* The manifest (package.json): only its scripts table is modelled; a      *)
(* table is a function from the script names it has to command strings.    *)

lintKeys == {"lint", "lint:fix", "format"}
OtherKeys == {"dev"}
ScriptKeys == OtherKeys \cup lintKeys

\* the command a scaffolded manifest has under a key
ScaffoldedCommand(k) ==
    CASE k = "dev" -> "vite"
      [] k = "lint" -> "eslint ."
      [] k = "lint:fix" -> "eslint . --fix"
      [] k = "format" -> "prettier --write ."

ScriptTables == {[k \in K |-> ScaffoldedCommand(k)] : K \in SUBSET ScriptKeys}

EmptyTable == [k \in {} |-> ""]

NoManifest == [exists |-> FALSE, hasScripts |-> FALSE, scripts |-> EmptyTable]

\* what a successful scaffolder run leaves in the project directory
ScaffoldResults ==
    {[eslintConfig |-> e, hasScripts |-> TRUE, scripts |-> t] :
        e \in BOOLEAN, t \in ScriptTables}
    \cup {[eslintConfig |-> e, hasScripts |-> FALSE, scripts |-> EmptyTable] :
        e \in BOOLEAN}

----------------------------------------------------------------------------
(* The state of a run *)

\* one side effect issued by the program, and whether it completed
Event(op, target, args, name, ok) ==
    [op |-> op, target |-> target, args |-> args, name |-> name, ok |-> ok]

\* the questions pushed onto prompts (lines 29-84)
prompts(dir) ==
    (IF ~dir.given \/ dir.value = <<>> THEN <<"projectName">> ELSE <<>>)
    \o <<"styling", "linting", "router", "reactQuery">>

\* const userAnswers = {...} (lines 10-16)
userAnswersDefault ==
    [projectName |-> <<>>, styling |-> "none", linting |-> "none",
     router |-> "none", reactQuery |-> "no"]

NoAnswers ==
    [hasProjectName |-> FALSE, projectName |-> <<>>, styling |-> "", linting |-> "",
     router |-> "", reactQuery |-> ""]

InitRun(dir) ==
    [pc |-> "prompt",
     prompts |-> prompts(dir),
     answers |-> NoAnswers,
     userAnswers |-> userAnswersDefault,
     devDependencies |-> <<>>,
     dependencies |-> <<>>,
     cwd |-> "invocation",
     dirExists |-> FALSE,
     fs |-> [p \in Paths |-> Absent],
     manifest |-> NoManifest,
     packageJson |-> NoManifest,
     log |-> <<>>,
     banner |-> FALSE,
     errorPrinted |-> FALSE,
     exitCode |-> -1]

\* an exception reaches the catch block (line 198)
Throw(r) == [r EXCEPT !.pc = "catch"]

Issue(r, ev) == [r EXCEPT !.log = Append(@, ev)]

----------------------------------------------------------------------------
(* The prompt sequence: inquirer.prompt(prompts), line 86 *)

\* The input question.  inquirer 8/9 filters the line and validates the
\* filtered value; inquirer 10+ validates the line and filters the accepted
\* value.  A rejected line leaves the question open (re-prompt).
answerProjectName(r, input, order) ==
    LET accepted == IF order = "filterFirst" THEN validate(filter(input))
                    ELSE validate(input)
    IN  IF accepted
        THEN [r EXCEPT !.answers.hasProjectName = TRUE,
                       !.answers.projectName = filter(input),
                       !.prompts = Tail(@)]
        ELSE r

\* a list question: the selected choice is the answer
answerList(r, question, choice) ==
    [r EXCEPT !.answers[question] = choice, !.prompts = Tail(@)]

\* lines 88-96: copy the answers into userAnswers
assign(r, dir) ==
    [r EXCEPT !.userAnswers =
                 [projectName |-> IF r.answers.hasProjectName
                                  THEN r.answers.projectName ELSE dir.value,
                  styling |-> r.answers.styling,
                  linting |-> r.answers.linting,
                  router |-> r.answers.router,
                  reactQuery |-> r.answers.reactQuery],
              !.pc = "ensureDir"]

----------------------------------------------------------------------------
(* The steps of the run, each a function of the run state and of the       *)
(* outcome o of the call it makes ("ok" or "fail")                         *)

\* line 99: fs.ensureDirSync(projectPath)
ensureDir(r, o) ==
    LET ev == Event("ensureDirSync", "projectPath", <<>>, r.userAnswers.projectName, o = "ok")
    IN  IF o = "ok"
        THEN [Issue(r, ev) EXCEPT !.dirExists = TRUE, !.pc = "scaffold"]
        ELSE Throw(Issue(r, ev))

\* line 102: execSync(`npm create vite@latest ${projectName} -- --template react-swc-ts`)
\* o is [ok, result]: result is what the scaffolder leaves when it succeeds
scaffold(r, o) ==
    LET ev == Event("execSync", "npm create vite@latest",
                    <<"--", "--template", "react-swc-ts">>,
                    r.userAnswers.projectName, o.ok)
    IN  IF o.ok
        THEN [Issue(r, ev) EXCEPT
                !.fs = [@ EXCEPT !["src/index.css"] = FromScaffolder,
                                 !["eslint.config.js"] =
                                     IF o.result.eslintConfig THEN FromScaffolder ELSE Absent],
                !.manifest = [exists |-> TRUE, hasScripts |-> o.result.hasScripts,
                              scripts |-> o.result.scripts],
                !.pc = "chdir"]
        ELSE Throw(Issue(r, ev))

\* line 105: process.chdir(projectPath)
chdir(r, o) ==
    LET ev == Event("chdir", "projectPath", <<>>, r.userAnswers.projectName, o = "ok")
    IN  IF o = "ok"
        THEN [Issue(r, ev) EXCEPT !.cwd = "project", !.pc = "styling"]
        ELSE Throw(Issue(r, ev))

\* lines 108-112, with the tailwind group pushed onto dependencies
addStylingTailwindAsDependency(r) ==
    [r EXCEPT
       !.dependencies = IF r.userAnswers.styling = "mui" THEN @ \o muiGroup
                        ELSE IF r.userAnswers.styling = "tailwind" THEN @ \o tailwindGroup
                        ELSE @,
       !.pc = "linting"]

\* lines 108-112, with a router branch that pushes a router package
addStylingAndRouter(r) ==
    [r EXCEPT
       !.dependencies =
            (IF r.userAnswers.styling = "mui" THEN @ \o muiGroup ELSE @)
            \o (IF r.userAnswers.router = "reactRouter" THEN <<"react-router-dom">> ELSE <<>>),
       !.devDependencies = IF r.userAnswers.styling = "tailwind" THEN @ \o tailwindGroup ELSE @,
       !.pc = "linting"]

\* lines 108-112, with the tailwind branch writing tailwind.config.js at once
addStylingWritesTailwindConfig(r) ==
    LET pushed ==
          [r EXCEPT
             !.dependencies = IF r.userAnswers.styling = "mui" THEN @ \o muiGroup ELSE @,
             !.devDependencies =
                 IF r.userAnswers.styling = "tailwind" THEN @ \o tailwindGroup ELSE @,
             !.pc = "linting"]
    IN  IF r.userAnswers.styling = "tailwind"
        THEN [Issue(pushed, Event("writeFileSync", "tailwind.config.js",
                                  <<tailwindConfigContent>>, <<>>, TRUE))
                EXCEPT !.fs["tailwind.config.js"] = tailwindConfigContent]
        ELSE pushed

\* lines 108-112: the styling branch
addStyling(r) ==
    [r EXCEPT
       !.dependencies = IF r.userAnswers.styling = "mui" THEN @ \o muiGroup ELSE @,
       !.devDependencies = IF r.userAnswers.styling = "tailwind" THEN @ \o tailwindGroup ELSE @,
       !.pc = "linting"]

\* lines 115-127: the linting branch; it pushes its group, then writes
\* .prettierrc (eslintPrettier) or deletes eslint.config.js (biome)
addLinting(r, o) ==
    CASE r.userAnswers.linting = "eslintPrettier" ->
            LET pushed == [r EXCEPT !.devDependencies = @ \o eslintPrettierGroup]
                ev == Event("writeFileSync", ".prettierrc", <<prettierrcContent>>, <<>>, o = "ok")
            IN  IF o = "ok"
                THEN [Issue(pushed, ev) EXCEPT !.fs[".prettierrc"] = prettierrcContent,
                                               !.pc = "installDev"]
                ELSE Throw(Issue(pushed, ev))
      [] r.userAnswers.linting = "biome" ->
            LET pushed == [r EXCEPT !.devDependencies = @ \o biomeGroup]
                done == o = "ok" /\ r.fs["eslint.config.js"] # Absent
                ev == Event("unlinkSync", "eslint.config.js", <<>>, <<>>, done)
            IN  IF done
                THEN [Issue(pushed, ev) EXCEPT !.fs["eslint.config.js"] = Absent,
                                               !.pc = "installDev"]
                ELSE Throw(Issue(pushed, ev))
      [] OTHER -> [r EXCEPT !.pc = "installDev"]

\* lines 129-132, with a failed install ignored
installDevDependenciesIgnoreFailure(r, o) ==
    IF Len(r.devDependencies) > 0
    THEN [Issue(r, Event("execSync", "npm install --save-dev", r.devDependencies, <<>>,
                         o = "ok"))
            EXCEPT !.pc = "installDeps"]
    ELSE [r EXCEPT !.pc = "installDeps"]

\* lines 129-132: npm install --save-dev ...
installDevDependencies(r, o) ==
    IF Len(r.devDependencies) > 0
    THEN LET ev == Event("execSync", "npm install --save-dev", r.devDependencies, <<>>, o = "ok")
         IN  IF o = "ok" THEN [Issue(r, ev) EXCEPT !.pc = "installDeps"]
             ELSE Throw(Issue(r, ev))
    ELSE [r EXCEPT !.pc = "installDeps"]

\* lines 134-137: npm install ...
installDependencies(r, o) ==
    IF Len(r.dependencies) > 0
    THEN LET ev == Event("execSync", "npm install", r.dependencies, <<>>, o = "ok")
         IN  IF o = "ok" THEN [Issue(r, ev) EXCEPT !.pc = "tailwindInit"]
             ELSE Throw(Issue(r, ev))
    ELSE [r EXCEPT !.pc = "tailwindInit"]

\* the initializer has run: it leaves its two configuration files
execTailwindInit(r, o) ==
    LET ev == Event("execSync", "npx tailwindcss init -p", <<>>, <<>>, o = "ok")
    IN  IF o = "ok"
        THEN [Issue(r, ev) EXCEPT !.fs["tailwind.config.js"] = FromTailwindInit,
                                  !.fs["postcss.config.js"] = FromTailwindInit,
                                  !.pc = "tailwindConfig"]
        ELSE Throw(Issue(r, ev))

\* lines 139-140, with tailwind.config.js written before the initializer runs
tailwindInitConfigFirst(r, o) ==
    IF r.userAnswers.styling = "tailwind"
    THEN execTailwindInit(
            [Issue(r, Event("writeFileSync", "tailwind.config.js",
                            <<tailwindConfigContent>>, <<>>, TRUE))
               EXCEPT !.fs["tailwind.config.js"] = tailwindConfigContent], o)
    ELSE [r EXCEPT !.pc = "biomeInit"]

\* lines 139-140, without the test of styling
tailwindInitUnguarded(r, o) == execTailwindInit(r, o)

\* lines 139-140: npx tailwindcss init -p
tailwindInit(r, o) ==
    IF r.userAnswers.styling = "tailwind"
    THEN execTailwindInit(r, o)
    ELSE [r EXCEPT !.pc = "biomeInit"]

\* line 143: fs.writeFileSync('tailwind.config.js', ...)
writeTailwindConfig(r, o) ==
    LET ev == Event("writeFileSync", "tailwind.config.js", <<tailwindConfigContent>>, <<>>, o = "ok")
    IN  IF o = "ok"
        THEN [Issue(r, ev) EXCEPT !.fs["tailwind.config.js"] = tailwindConfigContent,
                                  !.pc = "indexCss"]
        ELSE Throw(Issue(r, ev))

\* line 156: fs.writeFileSync('src/index.css', ...)
writeIndexCss(r, o) ==
    LET ev == Event("writeFileSync", "src/index.css", <<indexCssContent>>, <<>>, o = "ok")
    IN  IF o = "ok"
        THEN [Issue(r, ev) EXCEPT !.fs["src/index.css"] = indexCssContent,
                                  !.pc = "biomeInit"]
        ELSE Throw(Issue(r, ev))

\* lines 160-162: npx biome init
biomeInit(r, o) ==
    IF r.userAnswers.linting = "biome"
    THEN LET ev == Event("execSync", "npx biome init", <<>>, <<>>, o = "ok")
         IN  IF o = "ok"
             THEN [Issue(r, ev) EXCEPT !.fs["biome.json"] = FromBiomeInit,
                                       !.pc = "readManifest"]
             ELSE Throw(Issue(r, ev))
    ELSE [r EXCEPT !.pc = "readManifest"]

\* line 165: require(path.join(process.cwd(), 'package.json'))
readManifest(r, o) ==
    IF o = "ok" /\ r.manifest.exists
    THEN [r EXCEPT !.packageJson = r.manifest, !.pc = "writeManifest"]
    ELSE Throw(r)

----------------------------------------------------------------------------
(* The scripts table written back to the manifest, lines 166-186 *)

\* { ...a, ...b }: the keys of b win
Spread(a, b) ==
    [x \in DOMAIN a \cup DOMAIN b |-> IF x \in DOMAIN b THEN b[x] ELSE a[x]]

eslintPrettierScripts ==
    [k \in lintKeys |->
        CASE k = "lint" -> "eslint src --ext .ts,.tsx"
          [] k = "lint:fix" -> "eslint src --ext .ts,.tsx --fix"
          [] k = "format" -> "prettier --write 'src/**/*.{ts,tsx,css,md}'"]

biomeScripts ==
    [k \in {"lint", "lint:fix"} |->
        CASE k = "lint" -> "biome check --apply src"
          [] k = "lint:fix" -> "biome check --apply --fix src"]

\* lines 168-173, with the spread written last
scriptsEslintPrettierSpreadLast(old) == Spread(eslintPrettierScripts, old)
\* lines 168-173
scriptsEslintPrettier(old) == Spread(old, eslintPrettierScripts)

\* lines 176-180, without the spread
scriptsBiomeNoSpread(old) == biomeScripts
\* lines 176-180
scriptsBiome(old) == Spread(old, biomeScripts)

\* lines 183-185, with 'lint:fix' missing from the list
scriptsNoneKeepsLintFix(old) ==
    [k \in {x \in DOMAIN old : x \notin {"lint", "format"}} |-> old[k]]
\* lines 183-185
scriptsNone(old) ==
    [k \in {x \in DOMAIN old : x \notin {"lint", "lint:fix", "format"}} |-> old[k]]

\* Object.entries(packageJson.scripts) throws when the manifest has no scripts
scriptsThrows(linting, packageJson) ==
    linting \notin {"eslintPrettier", "biome"} /\ ~packageJson.hasScripts

\* lines 166-186; spreading an undefined scripts member adds nothing
scripts(linting, packageJson) ==
    LET old == IF packageJson.hasScripts THEN packageJson.scripts ELSE EmptyTable
    IN  CASE linting = "eslintPrettier" -> scriptsEslintPrettier(old)
          [] linting = "biome" -> scriptsBiome(old)
          [] OTHER -> scriptsNone(old)

\* lines 166-188: compute scripts, then fs.writeFileSync('package.json', ...)
writeManifest(r, o) ==
    IF scriptsThrows(r.userAnswers.linting, r.packageJson)
    THEN Throw(r)
    ELSE LET table == scripts(r.userAnswers.linting, r.packageJson)
             ev == Event("writeFileSync", "package.json", <<>>, <<>>, o = "ok")
         IN  IF o = "ok"
             THEN [Issue(r, ev) EXCEPT
                     !.packageJson = [@ EXCEPT !.hasScripts = TRUE, !.scripts = table],
                     !.manifest = [exists |-> TRUE, hasScripts |-> TRUE, scripts |-> table],
                     !.pc = "success"]
             ELSE Throw([Issue(r, ev) EXCEPT
                     !.packageJson = [@ EXCEPT !.hasScripts = TRUE, !.scripts = table]])

\* lines 190-197: the success banner; the process then ends with status 0
success(r) == [r EXCEPT !.banner = TRUE, !.exitCode = 0, !.pc = "exited"]

\* lines 198-201: console.error, process.exit(1)
catchError(r) == [r EXCEPT !.errorPrinted = TRUE, !.exitCode = 1, !.pc = "exited"]

----------------------------------------------------------------------------
(* Inputs *)

NoArgument == [given |-> FALSE, value |-> <<>>]

\* the positional argument: absent, the empty string, or a name (not validated)
ArgumentChoices ==
    {NoArgument, [given |-> TRUE, value |-> <<>>], [given |-> TRUE, value |-> <<"a", "!">>]}

\* the lines typed at the name question in the full run
SampleLines == {<<>>, <<"a", "!">>, <<"a", " ", "7">>}

Outcomes == {"ok", "fail"}

ScaffoldOutcomes ==
    {[ok |-> TRUE, result |-> res] : res \in ScaffoldResults}
    \cup {[ok |-> FALSE, result |-> [eslintConfig |-> FALSE, hasScripts |-> FALSE,
                                     scripts |-> EmptyTable]]}

----------------------------------------------------------------------------
(* Initial state and actions.  The twin run takes every step the run takes, *)
(* on the same inputs and outcomes, except for its router and reactQuery   *)
(* answers.                                                                *)

Init ==
    /\ projectDirectory \in ArgumentChoices
    /\ typed = <<>>
    /\ attempts = 0
    /\ run = InitRun(projectDirectory)
    /\ twin = InitRun(projectDirectory)

\* the twin is at the statement the run is at
InStep(t) == t.pc = run.pc /\ t.prompts = run.prompts

Asking(question) ==
    /\ run.pc = "prompt"
    /\ run.prompts # <<>>
    /\ Head(run.prompts) = question

AskProjectNameFrom(lines) ==
    /\ Asking("projectName")
    /\ \E input \in lines, order \in {"filterFirst", "validateFirst"} :
          LET next == answerProjectName(run, input, order)
              rejected == next.prompts = run.prompts
          IN  /\ rejected => attempts < MaxAttempts
              /\ run' = next
              /\ twin' = IF InStep(twin) THEN answerProjectName(twin, input, order) ELSE twin
              /\ typed' = input
              /\ attempts' = IF rejected THEN attempts + 1 ELSE attempts
    /\ UNCHANGED projectDirectory

AskProjectName == AskProjectNameFrom(SampleLines)

AskAnyProjectName == AskProjectNameFrom(Lines(MaxLen))

AskStyling ==
    /\ Asking("styling")
    /\ \E v \in stylingChoices :
          /\ run' = answerList(run, "styling", v)
          /\ twin' = IF InStep(twin) THEN answerList(twin, "styling", v) ELSE twin
    /\ UNCHANGED <<projectDirectory, typed, attempts>>

AskLinting ==
    /\ Asking("linting")
    /\ \E v \in lintingChoices :
          /\ run' = answerList(run, "linting", v)
          /\ twin' = IF InStep(twin) THEN answerList(twin, "linting", v) ELSE twin
    /\ UNCHANGED <<projectDirectory, typed, attempts>>

AskRouter ==
    /\ Asking("router")
    /\ \E v \in routerChoices, w \in routerChoices :
          /\ run' = answerList(run, "router", v)
          /\ twin' = IF InStep(twin) THEN answerList(twin, "router", w) ELSE twin
    /\ UNCHANGED <<projectDirectory, typed, attempts>>

AskReactQuery ==
    /\ Asking("reactQuery")
    /\ \E v \in reactQueryChoices, w \in reactQueryChoices :
          /\ run' = answerList(run, "reactQuery", v)
          /\ twin' = IF InStep(twin) THEN answerList(twin, "reactQuery", w) ELSE twin
    /\ UNCHANGED <<projectDirectory, typed, attempts>>

\* the input stream closes while a question is open: the prompt rejects
AbortPrompt ==
    /\ run.pc = "prompt"
    /\ run.prompts # <<>>
    /\ run' = Throw(run)
    /\ twin' = IF InStep(twin) THEN Throw(twin) ELSE twin
    /\ UNCHANGED <<projectDirectory, typed, attempts>>

Assign ==
    /\ run.pc = "prompt"
    /\ run.prompts = <<>>
    /\ run' = assign(run, projectDirectory)
    /\ twin' = IF InStep(twin) THEN assign(twin, projectDirectory) ELSE twin
    /\ UNCHANGED <<projectDirectory, typed, attempts>>

EnsureDir ==
    /\ run.pc = "ensureDir"
    /\ \E o \in Outcomes :
          /\ run' = ensureDir(run, o)
          /\ twin' = IF InStep(twin) THEN ensureDir(twin, o) ELSE twin
    /\ UNCHANGED <<projectDirectory, typed, attempts>>

Scaffold ==
    /\ run.pc = "scaffold"
    /\ \E o \in ScaffoldOutcomes :
          /\ run' = scaffold(run, o)
          /\ twin' = IF InStep(twin) THEN scaffold(twin, o) ELSE twin
    /\ UNCHANGED <<projectDirectory, typed, attempts>>

Chdir ==
    /\ run.pc = "chdir"
    /\ \E o \in Outcomes :
          /\ run' = chdir(run, o)
          /\ twin' = IF InStep(twin) THEN chdir(twin, o) ELSE twin
    /\ UNCHANGED <<projectDirectory, typed, attempts>>

AddStyling ==
    /\ run.pc = "styling"
    /\ run' = addStyling(run)
    /\ twin' = IF InStep(twin) THEN addStyling(twin) ELSE twin
    /\ UNCHANGED <<projectDirectory, typed, attempts>>

AddLinting ==
    /\ run.pc = "linting"
    /\ \E o \in Outcomes :
          /\ run' = addLinting(run, o)
          /\ twin' = IF InStep(twin) THEN addLinting(twin, o) ELSE twin
    /\ UNCHANGED <<projectDirectory, typed, attempts>>

InstallDevDependencies ==
    /\ run.pc = "installDev"
    /\ \E o \in Outcomes :
          /\ run' = installDevDependencies(run, o)
          /\ twin' = IF InStep(twin) THEN installDevDependencies(twin, o) ELSE twin
    /\ UNCHANGED <<projectDirectory, typed, attempts>>

InstallDependencies ==
    /\ run.pc = "installDeps"
    /\ \E o \in Outcomes :
          /\ run' = installDependencies(run, o)
          /\ twin' = IF InStep(twin) THEN installDependencies(twin, o) ELSE twin
    /\ UNCHANGED <<projectDirectory, typed, attempts>>

TailwindInit ==
    /\ run.pc = "tailwindInit"
    /\ \E o \in Outcomes :
          /\ run' = tailwindInit(run, o)
          /\ twin' = IF InStep(twin) THEN tailwindInit(twin, o) ELSE twin
    /\ UNCHANGED <<projectDirectory, typed, attempts>>

WriteTailwindConfig ==
    /\ run.pc = "tailwindConfig"
    /\ \E o \in Outcomes :
          /\ run' = writeTailwindConfig(run, o)
          /\ twin' = IF InStep(twin) THEN writeTailwindConfig(twin, o) ELSE twin
    /\ UNCHANGED <<projectDirectory, typed, attempts>>

WriteIndexCss ==
    /\ run.pc = "indexCss"
    /\ \E o \in Outcomes :
          /\ run' = writeIndexCss(run, o)
          /\ twin' = IF InStep(twin) THEN writeIndexCss(twin, o) ELSE twin
    /\ UNCHANGED <<projectDirectory, typed, attempts>>

BiomeInit ==
    /\ run.pc = "biomeInit"
    /\ \E o \in Outcomes :
          /\ run' = biomeInit(run, o)
          /\ twin' = IF InStep(twin) THEN biomeInit(twin, o) ELSE twin
    /\ UNCHANGED <<projectDirectory, typed, attempts>>

ReadManifest ==
    /\ run.pc = "readManifest"
    /\ \E o \in Outcomes :
          /\ run' = readManifest(run, o)
          /\ twin' = IF InStep(twin) THEN readManifest(twin, o) ELSE twin
    /\ UNCHANGED <<projectDirectory, typed, attempts>>

WriteManifest ==
    /\ run.pc = "writeManifest"
    /\ \E o \in Outcomes :
          /\ run' = writeManifest(run, o)
          /\ twin' = IF InStep(twin) THEN writeManifest(twin, o) ELSE twin
    /\ UNCHANGED <<projectDirectory, typed, attempts>>

Success ==
    /\ run.pc = "success"
    /\ run' = success(run)
    /\ twin' = IF InStep(twin) THEN success(twin) ELSE twin
    /\ UNCHANGED <<projectDirectory, typed, attempts>>

CatchError ==
    /\ run.pc = "catch"
    /\ run' = catchError(run)
    /\ twin' = IF InStep(twin) THEN catchError(twin) ELSE twin
    /\ UNCHANGED <<projectDirectory, typed, attempts>>

Next ==
    \/ AskProjectName
    \/ AskStyling
    \/ AskLinting
    \/ AskRouter
    \/ AskReactQuery
    \/ AbortPrompt
    \/ Assign
    \/ EnsureDir
    \/ Scaffold
    \/ Chdir
    \/ AddStyling
    \/ AddLinting
    \/ InstallDevDependencies
    \/ InstallDependencies
    \/ TailwindInit
    \/ WriteTailwindConfig
    \/ WriteIndexCss
    \/ BiomeInit
    \/ ReadManifest
    \/ WriteManifest
    \/ Success
    \/ CatchError

Spec == Init /\ [][Next]_vars

\* the name question alone, over every line of at most MaxLen characters
InitName ==
    /\ projectDirectory = NoArgument
    /\ typed = <<>>
    /\ attempts = 0
    /\ run = InitRun(projectDirectory)
    /\ twin = InitRun(projectDirectory)

NextName ==
    \/ AskAnyProjectName
    \/ AbortPrompt
    \/ CatchError

SpecName == InitName /\ [][NextName]_vars

----------------------------------------------------------------------------
(* Properties.  They are stated on the run: its effect log, its files, its *)
(* manifest and its exit status, with the expected values written out.     *)

Blank == {" ", "\t"}

NoDuplicates(list) ==
    \A i, j \in DOMAIN list : list[i] = list[j] => i = j

\* the events of the run with the given operation and target
Events(op, target) ==
    {i \in DOMAIN run.log : run.log[i].op = op /\ run.log[i].target = target}

Done(op, target) == \E i \in Events(op, target) : run.log[i].ok

Succeeded == run.pc = "exited" /\ run.exitCode = 0

\* the run is past the styling and linting branches (line 128 onwards)
PastBranches ==
    run.pc \in {"installDev", "installDeps", "tailwindInit", "tailwindConfig", "indexCss",
                "biomeInit", "readManifest", "writeManifest", "success"}
    \/ Succeeded

ExpectedDependencies(styling) ==
    IF styling = "mui"
    THEN <<"@mui/material", "@emotion/react", "@emotion/styled", "@mui/icons-material">>
    ELSE <<>>

ExpectedDevDependencies(styling, linting) ==
    (IF styling = "tailwind" THEN <<"tailwindcss@3.4.17", "postcss", "autoprefixer">> ELSE <<>>)
    \o (CASE linting = "eslintPrettier" ->
                <<"eslint", "prettier", "eslint-config-prettier", "eslint-plugin-prettier",
                  "eslint-plugin-react", "eslint-plugin-react-hooks">>
          [] linting = "biome" -> <<"@biomejs/biome">>
          [] OTHER -> <<>>)

\* C3: the package lists depend only on styling and linting and are in
\* insertion order: dependencies is the four MUI packages for mui and empty
\* otherwise; devDependencies is the tailwind group (tailwind only) followed
\* by the linting group; no list ever holds a duplicate; each install
\* command is given exactly its list, and is not issued for an empty list.
C3_PackageLists ==
    LET wantDeps == ExpectedDependencies(run.userAnswers.styling)
        wantDev == ExpectedDevDependencies(run.userAnswers.styling, run.userAnswers.linting)
    IN  /\ NoDuplicates(run.dependencies)
        /\ NoDuplicates(run.devDependencies)
        /\ PastBranches => run.dependencies = wantDeps /\ run.devDependencies = wantDev
        /\ \A i \in Events("execSync", "npm install --save-dev") :
              run.log[i].args = wantDev /\ wantDev # <<>>
        /\ \A i \in Events("execSync", "npm install") :
              run.log[i].args = wantDeps /\ wantDeps # <<>>
        /\ Cardinality(Events("execSync", "npm install --save-dev")) <= 1
        /\ Cardinality(Events("execSync", "npm install")) <= 1
        /\ Succeeded =>
              /\ Done("execSync", "npm install --save-dev") <=> wantDev # <<>>
              /\ Done("execSync", "npm install") <=> wantDeps # <<>>

\* C3 witness: a successful tailwind + eslintPrettier run has installed the
\* nine development packages in one command; no dependency install ran.
C3_Witness ==
    /\ Succeeded
    /\ run.userAnswers.styling = "tailwind"
    /\ run.userAnswers.linting = "eslintPrettier"
    /\ \E i \in Events("execSync", "npm install --save-dev") : Len(run.log[i].args) = 9
    /\ Events("execSync", "npm install") = {}

\* the step that rewrites package.json, with the linting answer given
Rewrites(linting) ==
    /\ run.pc = "writeManifest"
    /\ run'.pc = "success"
    /\ run.userAnswers.linting = linting

\* the scripts table on disk before and after the rewrite
OldTable == IF run.manifest.hasScripts THEN run.manifest.scripts ELSE <<>>
NewTable == run'.manifest.scripts

\* every key outside `keys` is in both tables or in neither, with one value
Preserved(keys) ==
    /\ DOMAIN NewTable \ keys = DOMAIN OldTable \ keys
    /\ \A k \in DOMAIN OldTable \ keys : NewTable[k] = OldTable[k]

\* C4: with linting = eslintPrettier the rewritten table maps lint, lint:fix
\* and format to the three fixed commands, whatever they were before, and
\* every other key is kept with its value; no other key is added.
C4_EslintPrettierScripts ==
    [][Rewrites("eslintPrettier") =>
          /\ run'.manifest.hasScripts
          /\ {"lint", "lint:fix", "format"} \subseteq DOMAIN NewTable
          /\ NewTable["lint"] = "eslint src --ext .ts,.tsx"
          /\ NewTable["lint:fix"] = "eslint src --ext .ts,.tsx --fix"
          /\ NewTable["format"] = "prettier --write 'src/**/*.{ts,tsx,css,md}'"
          /\ Preserved({"lint", "lint:fix", "format"})]_vars

\* C4 witness: the manifest was rewritten for eslintPrettier; it has the
\* three commands and still has the scaffolder's dev script.
C4_Witness ==
    /\ run.pc = "success"
    /\ run.userAnswers.linting = "eslintPrettier"
    /\ DOMAIN run.manifest.scripts = {"dev", "lint", "lint:fix", "format"}
    /\ run.manifest.scripts["dev"] = "vite"
    /\ run.manifest.scripts["lint"] = "eslint src --ext .ts,.tsx"

\* C5: with linting = none the rewritten table has none of lint, lint:fix,
\* format, and its keys are the other keys it had, values unchanged.
C5_NoneScripts ==
    [][Rewrites("none") =>
          /\ run'.manifest.hasScripts
          /\ DOMAIN NewTable \cap {"lint", "lint:fix", "format"} = {}
          /\ Preserved({"lint", "lint:fix", "format"})]_vars

\* C5 witness: the manifest was rewritten for linting = none and only the
\* dev script is left (the three keys are stripped or were never there).
C5_Witness ==
    /\ run.pc = "success"
    /\ run.userAnswers.linting = "none"
    /\ DOMAIN run.manifest.scripts = {"dev"}
    /\ run.manifest.scripts["dev"] = "vite"

\* C6 as claimed: with linting = biome the rewritten table maps lint and
\* lint:fix to the two biome commands and has no format entry.
C6_BiomeNoFormat ==
    (run.pc = "success" /\ run.userAnswers.linting = "biome") =>
        /\ {"lint", "lint:fix"} \subseteq DOMAIN run.manifest.scripts
        /\ run.manifest.scripts["lint"] = "biome check --apply src"
        /\ run.manifest.scripts["lint:fix"] = "biome check --apply --fix src"
        /\ "format" \notin DOMAIN run.manifest.scripts

\* C6 amended: with linting = biome the rewritten table maps lint and
\* lint:fix to the two biome commands and every other key, format included,
\* is kept with its value: the rewrite adds no format entry and removes none.
C6_BiomeScripts ==
    [][Rewrites("biome") =>
          /\ run'.manifest.hasScripts
          /\ {"lint", "lint:fix"} \subseteq DOMAIN NewTable
          /\ NewTable["lint"] = "biome check --apply src"
          /\ NewTable["lint:fix"] = "biome check --apply --fix src"
          /\ Preserved({"lint", "lint:fix"})
          /\ "format" \in DOMAIN NewTable <=> "format" \in DOMAIN OldTable]_vars

\* C6 witness: the manifest was rewritten for biome and still has the
\* format script it had before, next to the two biome commands.
C6_Witness ==
    /\ run.pc = "success"
    /\ run.userAnswers.linting = "biome"
    /\ DOMAIN run.manifest.scripts = {"dev", "lint", "lint:fix", "format"}
    /\ run.manifest.scripts["format"] = "prettier --write ."
    /\ run.manifest.scripts["lint"] = "biome check --apply src"

----------------------------------------------------------------------------
(* Order of the side effects *)

Is(e, op, target) == e.op = op /\ e.target = target

\* the place of an effect in the claimed sequence; 0 for an effect the
\* sequence does not list
ClaimedStep(e) ==
    CASE Is(e, "ensureDirSync", "projectPath") -> 1
      [] Is(e, "execSync", "npm create vite@latest") -> 2
      [] Is(e, "execSync", "npm install --save-dev") -> 3
      [] Is(e, "execSync", "npm install") -> 4
      [] Is(e, "execSync", "npx tailwindcss init -p") -> 5
      [] Is(e, "writeFileSync", "tailwind.config.js") -> 6
      [] Is(e, "writeFileSync", "src/index.css") -> 7
      [] Is(e, "unlinkSync", "eslint.config.js") -> 8
      [] Is(e, "execSync", "npx biome init") -> 9
      [] Is(e, "writeFileSync", "package.json") -> 10
      [] OTHER -> 0

\* the place of an effect in the sequence the program follows
ProgramStep(e) ==
    CASE Is(e, "ensureDirSync", "projectPath") -> 1
      [] Is(e, "execSync", "npm create vite@latest") -> 2
      [] Is(e, "chdir", "projectPath") -> 3
      [] Is(e, "writeFileSync", ".prettierrc") -> 4
      [] Is(e, "unlinkSync", "eslint.config.js") -> 4
      [] Is(e, "execSync", "npm install --save-dev") -> 5
      [] Is(e, "execSync", "npm install") -> 6
      [] Is(e, "execSync", "npx tailwindcss init -p") -> 7
      [] Is(e, "writeFileSync", "tailwind.config.js") -> 8
      [] Is(e, "writeFileSync", "src/index.css") -> 9
      [] Is(e, "execSync", "npx biome init") -> 10
      [] Is(e, "writeFileSync", "package.json") -> 11
      [] OTHER -> 0

\* every effect but the last one issued has completed
EarlierCompleted == \A i \in DOMAIN run.log : i < Len(run.log) => run.log[i].ok

\* C1 as claimed: the listed steps happen at most once each, in the order
\* directory, scaffolder, dev install, install, CSS initializer, tailwind
\* files, linter config removal / linter initializer, manifest; no step
\* starts before the earlier ones have completed.
C1_ClaimedOrder ==
    /\ EarlierCompleted
    /\ \A i, j \in DOMAIN run.log :
          (i < j /\ ClaimedStep(run.log[i]) > 0 /\ ClaimedStep(run.log[j]) > 0)
              => ClaimedStep(run.log[i]) < ClaimedStep(run.log[j])

\* C1 amended: the steps happen at most once each, in the order directory,
\* scaffolder, change of directory, .prettierrc written (eslintPrettier) or
\* eslint.config.js removed (biome), dev install (if any), install (if any),
\* CSS initializer, tailwind.config.js, src/index.css (tailwind), linter
\* initializer (biome), manifest; no step starts before the earlier ones
\* have completed.
C1_StepOrder ==
    /\ EarlierCompleted
    /\ \A i \in DOMAIN run.log : ProgramStep(run.log[i]) > 0
    /\ \A i, j \in DOMAIN run.log :
          i < j => ProgramStep(run.log[i]) < ProgramStep(run.log[j])
    /\ Events("execSync", "npx tailwindcss init -p") # {} => run.userAnswers.styling = "tailwind"
    /\ Events("execSync", "npx biome init") # {} => run.userAnswers.linting = "biome"
    /\ Events("execSync", "npm install --save-dev") # {} => run.devDependencies # <<>>
    /\ Events("execSync", "npm install") # {} => run.dependencies # <<>>

\* C1 witness: a successful tailwind + biome run: ten effects, the removal
\* of eslint.config.js fourth, before the dev install, the manifest last.
C1_Witness ==
    /\ Succeeded
    /\ run.userAnswers.styling = "tailwind"
    /\ run.userAnswers.linting = "biome"
    /\ Len(run.log) = 10
    /\ Is(run.log[4], "unlinkSync", "eslint.config.js")
    /\ Is(run.log[5], "execSync", "npm install --save-dev")
    /\ Is(run.log[9], "execSync", "npx biome init")
    /\ Is(run.log[10], "writeFileSync", "package.json")

----------------------------------------------------------------------------
(* Failure *)

\* the effects a successful run with these answers has completed
ApplicableSteps(styling, linting) ==
    {<<"ensureDirSync", "projectPath">>, <<"execSync", "npm create vite@latest">>,
     <<"chdir", "projectPath">>, <<"writeFileSync", "package.json">>}
    \cup (IF styling = "mui" THEN {<<"execSync", "npm install">>} ELSE {})
    \cup (IF styling = "tailwind"
          THEN {<<"execSync", "npx tailwindcss init -p">>,
                <<"writeFileSync", "tailwind.config.js">>,
                <<"writeFileSync", "src/index.css">>}
          ELSE {})
    \cup (IF styling = "tailwind" \/ linting \in {"eslintPrettier", "biome"}
          THEN {<<"execSync", "npm install --save-dev">>} ELSE {})
    \cup (IF linting = "eslintPrettier" THEN {<<"writeFileSync", ".prettierrc">>} ELSE {})
    \cup (IF linting = "biome"
          THEN {<<"unlinkSync", "eslint.config.js">>, <<"execSync", "npx biome init">>}
          ELSE {})

CompletedSteps(r) == {<<r.log[i].op, r.log[i].target>> : i \in {j \in DOMAIN r.log : r.log[j].ok}}

\* what holds of a run in every state
FailureState(r) ==
    /\ \A i \in DOMAIN r.log : ~r.log[i].ok =>
          /\ i = Len(r.log)
          /\ r.pc \in {"catch", "exited"}
    /\ r.exitCode \in {-1, 0, 1}
    /\ r.pc = "exited" <=> r.exitCode # -1
    /\ r.exitCode = 1 => r.errorPrinted /\ ~r.banner
    /\ r.banner <=> r.exitCode = 0
    /\ r.exitCode = 0 =>
          /\ ~r.errorPrinted
          /\ CompletedSteps(r) = ApplicableSteps(r.userAnswers.styling, r.userAnswers.linting)
          /\ Len(r.log) = Cardinality(CompletedSteps(r))

\* C2: a failed step is the last effect of the run: the handler prints the
\* error and exits with status 1, changing nothing else (no later step, no
\* retry, no rollback, no banner); removing an absent eslint.config.js is
\* such a failure; status 0 is reached only with the banner printed and
\* every applicable step completed, each once.
C2_FailureIsFatal ==
    [][/\ FailureState(run')
       /\ run.pc = "exited" => run' = run
       /\ run.pc = "catch" =>
             run' = [run EXCEPT !.errorPrinted = TRUE, !.exitCode = 1, !.pc = "exited"]
       /\ (run.pc = "linting" /\ run.userAnswers.linting = "biome"
             /\ run.fs["eslint.config.js"] = "ABSENT") => run'.pc = "catch"
       /\ (run'.log # run.log /\ ~run'.log[Len(run'.log)].ok) =>
             /\ run'.pc = "catch"
             /\ run'.fs = run.fs
             /\ run'.manifest = run.manifest]_vars

\* C2 witness: the scaffolder left no eslint.config.js and linting = biome:
\* the removal failed fourth, the run ended with status 1 and no banner, and
\* the scaffolded files are still there.
C2_Witness ==
    /\ run.pc = "exited"
    /\ run.exitCode = 1
    /\ run.errorPrinted
    /\ ~run.banner
    /\ Len(run.log) = 4
    /\ Is(run.log[4], "unlinkSync", "eslint.config.js")
    /\ ~run.log[4].ok
    /\ run.dirExists
    /\ run.manifest.exists
    /\ run.fs["src/index.css"] = "written by create-vite"

----------------------------------------------------------------------------
(* Files *)

\* C7: in every state, .prettierrc has been written only if linting =
\* eslintPrettier, tailwind.config.js and src/index.css have been written by
\* the program only if styling = tailwind, eslint.config.js has been deleted
\* only if linting = biome; a successful run has each of these effects when
\* its condition holds, and has rewritten package.json.
C7_ConditionalFiles ==
    /\ (Events("writeFileSync", ".prettierrc") # {} \/ run.fs[".prettierrc"] # "ABSENT")
          => run.userAnswers.linting = "eslintPrettier"
    /\ (\/ Events("writeFileSync", "tailwind.config.js") # {}
        \/ Events("writeFileSync", "src/index.css") # {}
        \/ run.fs["tailwind.config.js"] # "ABSENT"
        \/ run.fs["src/index.css"] \notin {"ABSENT", "written by create-vite"})
          => run.userAnswers.styling = "tailwind"
    /\ Events("unlinkSync", "eslint.config.js") # {} => run.userAnswers.linting = "biome"
    /\ Succeeded =>
          /\ run.userAnswers.linting = "eslintPrettier" =>
                /\ Done("writeFileSync", ".prettierrc")
                /\ run.fs[".prettierrc"] =
                     "{semi:true,trailingComma:es5,singleQuote:true,printWidth:100,tabWidth:2}"
          /\ run.userAnswers.styling = "tailwind" =>
                /\ Done("writeFileSync", "tailwind.config.js")
                /\ Done("writeFileSync", "src/index.css")
                /\ run.fs["tailwind.config.js"] \notin {"ABSENT", "written by tailwindcss init"}
                /\ run.fs["src/index.css"] =
                     "@tailwind base;\n@tailwind components;\n@tailwind utilities;"
          /\ run.userAnswers.linting = "biome" =>
                /\ Done("unlinkSync", "eslint.config.js")
                /\ run.fs["eslint.config.js"] = "ABSENT"
          /\ Done("writeFileSync", "package.json")
          /\ run.manifest.exists /\ run.manifest.hasScripts

\* C7 witness: a successful mui + eslintPrettier run: .prettierrc and
\* package.json written, src/index.css and eslint.config.js as scaffolded.
C7_Witness ==
    /\ Succeeded
    /\ run.userAnswers.styling = "mui"
    /\ run.userAnswers.linting = "eslintPrettier"
    /\ run.fs[".prettierrc"] # "ABSENT"
    /\ run.fs["tailwind.config.js"] = "ABSENT"
    /\ run.fs["src/index.css"] = "written by create-vite"
    /\ run.fs["eslint.config.js"] = "written by create-vite"
    /\ Done("writeFileSync", "package.json")

----------------------------------------------------------------------------
(* The router and reactQuery answers *)

\* C8: two runs that agree on the project name, styling and linting, start
\* from the same files and see the same outcomes issue the same effects with
\* the same arguments, leave the same files and manifest and end with the
\* same status, whatever their router and reactQuery answers are.
C8_RouterAndReactQueryInert ==
    /\ twin.pc = run.pc
    /\ twin.log = run.log
    /\ twin.fs = run.fs
    /\ twin.manifest = run.manifest
    /\ twin.dirExists = run.dirExists
    /\ twin.cwd = run.cwd
    /\ twin.exitCode = run.exitCode
    /\ twin.banner = run.banner
    /\ twin.errorPrinted = run.errorPrinted

\* C8 witness: two successful mui runs of five effects each, one with
\* reactRouter and React Query, the other with neither.
C8_Witness ==
    /\ Succeeded
    /\ run.userAnswers.styling = "mui"
    /\ run.userAnswers.router = "reactRouter"
    /\ run.userAnswers.reactQuery = "yes"
    /\ twin.userAnswers.router = "none"
    /\ twin.userAnswers.reactQuery = "no"
    /\ twin.userAnswers.styling = run.userAnswers.styling
    /\ twin.userAnswers.linting = run.userAnswers.linting
    /\ twin.userAnswers.projectName = run.userAnswers.projectName
    /\ Len(run.log) >= 5

----------------------------------------------------------------------------
(* Deriving the package lists (the styling and linting branches) *)

InBranches == run.pc \in {"styling", "linting"}

BeforeBranches == run.pc \in {"prompt", "ensureDir", "scaffold", "chdir"}

\* the effects the step has issued
Issued == {i \in DOMAIN run'.log : i > Len(run.log)}

\* C9 as claimed: while the lists are built no file is written or deleted
\* and no subprocess is invoked; every write or deletion happens after.
C9_BranchesArePure ==
    [][/\ InBranches =>
             /\ run'.log = run.log
             /\ run'.fs = run.fs
             /\ run'.manifest = run.manifest
       /\ BeforeBranches =>
             \A i \in Issued : run'.log[i].op \notin {"writeFileSync", "unlinkSync"}]_vars

\* C9 amended: while the lists are built no subprocess is invoked and the
\* lists that result depend only on the styling and linting answers; the
\* only file effect is the linting branch writing .prettierrc
\* (eslintPrettier) or deleting eslint.config.js (biome), which may fail;
\* every other write happens after the lists are complete, and none before
\* they are begun.
C9_BranchesOnlyTouchLinterConfig ==
    [][/\ InBranches =>
             /\ \A i \in Issued :
                   \/ /\ Is(run'.log[i], "writeFileSync", ".prettierrc")
                      /\ run.userAnswers.linting = "eslintPrettier"
                   \/ /\ Is(run'.log[i], "unlinkSync", "eslint.config.js")
                      /\ run.userAnswers.linting = "biome"
             /\ Cardinality(Issued) <= 1
             /\ (run.pc = "linting" /\ run.userAnswers.linting # "none")
                   => Cardinality(Issued) = 1
             /\ \A p \in DOMAIN run.fs \ {".prettierrc", "eslint.config.js"} :
                   run'.fs[p] = run.fs[p]
             /\ run'.manifest = run.manifest
             /\ run'.pc = "installDev" =>
                   /\ run'.dependencies = ExpectedDependencies(run.userAnswers.styling)
                   /\ run'.devDependencies =
                        ExpectedDevDependencies(run.userAnswers.styling,
                                                run.userAnswers.linting)
       /\ BeforeBranches =>
             \A i \in Issued : run'.log[i].op \notin {"writeFileSync", "unlinkSync"}
       /\ ~InBranches =>
             /\ run'.dependencies = run.dependencies
             /\ run'.devDependencies = run.devDependencies]_vars

\* C9 witness: the linting branch has just run for eslintPrettier: the six
\* packages are on the list and .prettierrc is written, before any install.
C9_Witness ==
    /\ run.pc = "installDev"
    /\ run.userAnswers.linting = "eslintPrettier"
    /\ Len(run.devDependencies) = 6
    /\ Len(run.log) = 4
    /\ Is(run.log[4], "writeFileSync", ".prettierrc")
    /\ run.fs[".prettierrc"] # "ABSENT"

----------------------------------------------------------------------------
(* The name question *)

ValidName(line) ==
    /\ line # <<>>
    /\ \A i \in DOMAIN line : line[i] \in {"a", "7", " ", "\t", "-", "_"}

\* the places of a line that survive: every character that is not
\* whitespace, and the first character of every run of whitespace
Kept(line) ==
    SelectSeq([i \in DOMAIN line |-> i],
              LAMBDA i : line[i] \notin Blank \/ i = 1 \/ line[i - 1] \notin Blank)

\* the line with every maximal run of whitespace replaced by one hyphen
Hyphenated(line) ==
    [j \in DOMAIN Kept(line) |->
        IF line[Kept(line)[j]] \in Blank THEN "-" ELSE line[Kept(line)[j]]]

\* a line has been entered at the name question
Entered == attempts > 0 \/ run.answers.hasProjectName

\* C10: a line entered at the name question is accepted if and only if it
\* is non-empty and made of letters, digits, whitespace, hyphens and
\* underscores; a rejected line leaves the question open and no project
\* name set; an accepted line becomes the project name with every maximal
\* run of whitespace replaced by one hyphen, so the name is non-empty and
\* has no whitespace.
C10_ProjectName ==
    /\ Entered => (run.answers.hasProjectName <=> ValidName(typed))
    /\ ~run.answers.hasProjectName =>
          /\ run.answers.projectName = <<>>
          /\ run.prompts # <<>> /\ Head(run.prompts) = "projectName"
    /\ run.answers.hasProjectName =>
          /\ run.answers.projectName = Hyphenated(typed)
          /\ run.answers.projectName # <<>>
          /\ \A i \in DOMAIN run.answers.projectName :
                run.answers.projectName[i] \notin Blank
          /\ Head(run.prompts) = "styling"

\* C10 witness: after one rejected line, a blank, a tab and a letter were
\* typed and the project name is a hyphen and the letter.
C10_Witness ==
    /\ attempts = 1
    /\ typed = <<" ", "\t", "a">>
    /\ run.answers.hasProjectName
    /\ run.answers.projectName = <<"-", "a">>

====
